---- MODULE Spec2Model ----
(***************************************************************************)
(* Model of the solanatracker package: GetSwapInstructions (fetch quote),  *)
(* PerformSwap (decode, deserialize, blockhash, sign) and                  *)
(* sendAndConfirmTransaction (send once, bounded confirmation polling),    *)
(* run in the order the example program calls them.                        *)
(*                                                                         *)
(* Strings the code compares or escapes are sequences: confirmation        *)
(* statuses are sequences of byte values (Go compares strings byte-wise),  *)
(* query-string text is a sequence of tokens.  Durations are counted in    *)
(* units of 100 ms.                                                        *)
(***************************************************************************)
EXTENDS Integers, Sequences, FiniteSets, TLC

VARIABLES
    pc,            \* position of the single sequential flow
    priorityFee,   \* GetSwapInstructions argument: <<>> (nil) or <<v>> (pointer to v)
    forceLegacy,   \* GetSwapInstructions argument
    url,           \* the request URL built by GetSwapInstructions (token sequence)
    httpRequests,  \* number of http.Get calls issued
    resp,          \* what http.Get returned and the body read from it
    quote,         \* (*SwapResponse, error) returned by GetSwapInstructions
    options,       \* the SwapOptions passed to PerformSwap
    tx,            \* the transaction PerformSwap builds
    sig,           \* sig returned by client.SendTransactionWithOpts
    i,             \* loop counter of the confirmation loop
    statuses,      \* the answers of the GetSignatureStatuses calls, in order
    log,           \* steps, external calls and sleeps of PerformSwap, in order
    ret,           \* (solana.Signature, error) returned by sendAndConfirmTransaction
    out            \* (string, error) returned by PerformSwap

vars == <<pc, priorityFee, forceLegacy, url, httpRequests, resp, quote,
          options, tx, sig, i, statuses, log, ret, out>>

quoteVars == <<priorityFee, forceLegacy, url, httpRequests, resp, quote>>

----------------------------------------------------------------------------
(* Bounds of the model *)

MaxRetries  == 3   \* largest ConfirmationRetries tried
MaxInterval == 2   \* largest ConfirmationCheckInterval tried (x 100 ms)
MaxTimeout  == 2   \* largest ConfirmationRetryTimeout tried (x 100 ms)
MaxTokenLen == 2   \* longest fromToken tried (tokens)
MaxBodyLen  == 2   \* most JSON values / fragments in a response body

----------------------------------------------------------------------------
(* Go string comparison: byte-wise lexicographic *)

RECURSIVE StrLess(_, _)
StrLess(a, b) ==
    IF b = <<>> THEN FALSE
    ELSE IF a = <<>> THEN TRUE
    ELSE IF Head(a) < Head(b) THEN TRUE
    ELSE IF Head(a) > Head(b) THEN FALSE
    ELSE StrLess(Tail(a), Tail(b))

StrGE(a, b) == ~StrLess(a, b)

\* rpc.ConfirmationStatusType / rpc.CommitmentType values, as bytes
Processed == <<112, 114, 111, 99, 101, 115, 115, 101, 100>>   \* "processed"
Confirmed == <<99, 111, 110, 102, 105, 114, 109, 101, 100>>   \* "confirmed"
Finalized == <<102, 105, 110, 97, 108, 105, 122, 101, 100>>   \* "finalized"

Levels == {Processed, Confirmed, Finalized}

----------------------------------------------------------------------------
(* SwapOptions *)

SwapOptions ==
    [ ConfirmationRetries        : (-1) .. MaxRetries,
      ConfirmationRetryTimeout   : 1 .. MaxTimeout,
      LastValidBlockHeightBuffer : {0, 200},
      Commitment                 : Levels,
      ResendInterval             : {0, 15},
      ConfirmationCheckInterval  : 1 .. MaxInterval,
      SkipConfirmationCheck      : BOOLEAN ]

NoOptions == [ ConfirmationRetries |-> 0, ConfirmationRetryTimeout |-> 1,
               LastValidBlockHeightBuffer |-> 0, Commitment |-> Finalized,
               ResendInterval |-> 0, ConfirmationCheckInterval |-> 1,
               SkipConfirmationCheck |-> FALSE ]

----------------------------------------------------------------------------
(* GetSwapInstructions: the query string *)

FracDigits == 6                 \* digits after the point printed by the %f verb
Micro      == 10 ^ FracDigits

\* Text is a sequence of tokens.  A token is a character that matters to a
\* query string ("&", "=", "+", " ") or a word without any such character.
TokenChars == {"So1", "&", "=", "priorityFee"}

StringsUpTo(n) == UNION { [1 .. k -> TokenChars] : k \in 0 .. n }

\* float64 arguments, in millionths (0.0001 is 100, 30 is 30000000)
Amounts == {0, 100, -100}
Slippages == {30000000, 500000}
Fees == {<<>>, <<0>>, <<50>>}

RECURSIVE Digits(_)
Digits(n) == IF n < 10 THEN <<ToString(n)>>
             ELSE Digits(n \div 10) \o <<ToString(n % 10)>>

Abs(n) == IF n < 0 THEN -n ELSE n

\* fmt.Sprintf("%f", x): sign, integer digits, ".", six fraction digits
FormatF(n) ==
    (IF n < 0 THEN <<"-">> ELSE <<>>)
      \o Digits(Abs(n) \div Micro)
      \o <<".">>
      \o [k \in 1 .. FracDigits |->
            ToString(((Abs(n) % Micro) \div (10 ^ (FracDigits - k))) % 10)]

\* strconv.FormatBool
FormatBool(b) == IF b THEN <<"true">> ELSE <<"false">>

\* EscapeToken that escapes nothing
EscapeTokenNone(t) == t

\* url.QueryEscape, one token at a time
EscapeToken(t) ==
    CASE t = "&" -> "%26"
      [] t = "=" -> "%3D"
      [] t = "+" -> "%2B"
      [] t = " " -> "+"
      [] OTHER   -> t

QueryEscape(str) == [k \in 1 .. Len(str) |-> EscapeToken(str[k])]

\* url.Values is map[string][]string; Add appends to the key's values
EmptyValues == <<>>

Add(params, k, v) ==
    IF k \in DOMAIN params
    THEN [params EXCEPT ![k] = Append(@, v)]
    ELSE [x \in DOMAIN params \cup {k} |-> IF x = k THEN <<v>> ELSE params[x]]

\* the keys GetSwapInstructions uses, in the byte order url.Values.Encode sorts them
KeyOrder == <<"forceLegacy", "from", "fromAmount", "payer", "priorityFee",
              "slippage", "to">>

RECURSIVE EncodeKey(_, _)
EncodeKey(k, vs) ==
    IF vs = <<>> THEN <<>>
    ELSE << QueryEscape(<<k>>) \o <<"=">> \o QueryEscape(Head(vs)) >>
           \o EncodeKey(k, Tail(vs))

RECURSIVE EncodePairs(_, _)
EncodePairs(params, keys) ==
    IF keys = <<>> THEN <<>>
    ELSE (IF Head(keys) \in DOMAIN params
          THEN EncodeKey(Head(keys), params[Head(keys)]) ELSE <<>>)
           \o EncodePairs(params, Tail(keys))

RECURSIVE JoinAmp(_)
JoinAmp(pairs) ==
    IF pairs = <<>> THEN <<>>
    ELSE IF Len(pairs) = 1 THEN pairs[1]
    ELSE pairs[1] \o <<"&">> \o JoinAmp(Tail(pairs))

\* url.Values.Encode: "k=v" for every value of every key, keys sorted, joined by "&"
Encode(params) == JoinAmp(EncodePairs(params, KeyOrder))

\* lines 86-95
BuildParams(fromToken, toToken, fromAmount, slippage, payer, fee, legacy) ==
    LET p1 == Add(EmptyValues, "from", fromToken)
        p2 == Add(p1, "to", toToken)
        p3 == Add(p2, "fromAmount", FormatF(fromAmount))
        p4 == Add(p3, "slippage", FormatF(slippage))
        p5 == Add(p4, "payer", payer)
        p6 == Add(p5, "forceLegacy", FormatBool(legacy))
    IN  IF fee # <<>> THEN Add(p6, "priorityFee", FormatF(fee[1])) ELSE p6

BaseURL == "https://swap-v2.solanatracker.io"

\* line 98: "%s/swap?%s"
BuildURL(params) == <<BaseURL, "/swap?">> \o Encode(params)

----------------------------------------------------------------------------
(* GetSwapInstructions: the request and the response *)

NoResp == [called |-> FALSE, err |-> FALSE, Body |-> <<>>]

\* A response body is a sequence of fragments: JSON values (null, an array,
\* an object with or without a "txn" member) or bytes that are not JSON.
TxnStrings == {"", "!notbase64", "b64(junk)", "b64(tx:keypair)", "b64(tx:other)"}
TxnMembers == TxnStrings \cup {"<absent>", "<number>"}

Fragment(kind, t, fl) == [kind |-> kind, txn |-> t, forceLegacy |-> fl]

Fragments ==
    { Fragment(k, "<absent>", FALSE) : k \in {"garbage", "null", "array"} }
      \cup { Fragment("object", t, fl) : t \in TxnMembers, fl \in BOOLEAN }

Bodies == UNION { [1 .. n -> Fragments] : n \in 0 .. MaxBodyLen }

\* json.NewDecoder(resp.Body).Decode(&swapResp): reads the next JSON value of
\* the stream and stores it; what follows that value is not read.
JsonDecode(body) ==
    IF body = <<>>
    THEN [err |-> TRUE, Txn |-> "", ForceLegacy |-> FALSE]            \* io.EOF
    ELSE LET f == body[1] IN
      CASE f.kind = "garbage" -> [err |-> TRUE, Txn |-> "", ForceLegacy |-> FALSE]
        [] f.kind = "array"   -> [err |-> TRUE, Txn |-> "", ForceLegacy |-> FALSE]
        [] f.kind = "null"    -> [err |-> FALSE, Txn |-> "", ForceLegacy |-> FALSE]
        [] OTHER ->
            IF f.txn = "<number>"
            THEN [err |-> TRUE, Txn |-> "", ForceLegacy |-> f.forceLegacy]
            ELSE [err |-> FALSE,
                  Txn |-> IF f.txn = "<absent>" THEN "" ELSE f.txn,
                  ForceLegacy |-> f.forceLegacy]

NoQuote == [isNil |-> TRUE, Txn |-> "", ForceLegacy |-> FALSE, err |-> "unset"]

QuoteError(e) == [isNil |-> TRUE, Txn |-> "", ForceLegacy |-> FALSE, err |-> e]

\* lines 101-104: the result of http.Get decides between the error return and decoding
HttpOutcome(httpErr) ==
    IF httpErr THEN [pc |-> "quote_return", quote |-> QuoteError("fetch")]
    ELSE [pc |-> "decode", quote |-> NoQuote]

\* DecodeOutcome that also rejects a body holding more than one fragment
DecodeOutcomeStrict(body, legacy) ==
    LET d == JsonDecode(body) IN
      IF d.err \/ Len(body) > 1 THEN QuoteError("decode")
      ELSE [isNil |-> FALSE, Txn |-> d.Txn, ForceLegacy |-> legacy, err |-> "none"]

\* DecodeOutcome without line 114: ForceLegacy as the response gave it
DecodeOutcomeKeepsResponseFlag(body, legacy) ==
    LET d == JsonDecode(body) IN
      IF d.err THEN QuoteError("decode")
      ELSE [isNil |-> FALSE, Txn |-> d.Txn, ForceLegacy |-> d.ForceLegacy, err |-> "none"]

\* lines 108-117
DecodeOutcome(body, legacy) ==
    LET d == JsonDecode(body) IN
      IF d.err THEN QuoteError("decode")
      ELSE [isNil |-> FALSE, Txn |-> d.Txn, ForceLegacy |-> legacy, err |-> "none"]

----------------------------------------------------------------------------
(* PerformSwap up to the send *)

NoTx == [signer |-> "none", RecentBlockhash |-> "none", signed |-> FALSE]

NoOut == [txid |-> "", err |-> "unset"]

\* base64.StdEncoding.DecodeString
Base64Decode(t) ==
    CASE t = "!notbase64"      -> [err |-> TRUE,  bytes |-> ""]
      [] t = "b64(junk)"       -> [err |-> FALSE, bytes |-> "junk"]
      [] t = "b64(tx:keypair)" -> [err |-> FALSE, bytes |-> "tx:keypair"]
      [] t = "b64(tx:other)"   -> [err |-> FALSE, bytes |-> "tx:other"]
      [] OTHER                 -> [err |-> FALSE, bytes |-> ""]

\* solana.TransactionFromDecoder
TransactionFromDecoder(bytes) ==
    CASE bytes = "tx:keypair" -> [err |-> FALSE, signer |-> "keypair"]
      [] bytes = "tx:other"   -> [err |-> FALSE, signer |-> "other"]
      [] OTHER                -> [err |-> TRUE,  signer |-> "none"]

\* lines 206-215
DecodeTransaction(t) ==
    LET b == Base64Decode(t) IN
      IF b.err THEN [err |-> "decode", log |-> <<"base64">>, signer |-> "none"]
      ELSE LET d == TransactionFromDecoder(b.bytes) IN
        IF d.err
        THEN [err |-> "deserialize", log |-> <<"base64", "deserialize">>, signer |-> "none"]
        ELSE [err |-> "none", log |-> <<"base64", "deserialize">>, signer |-> d.signer]

\* SignFails with the error of tx.Sign ignored
SignFailsIgnored(t) == FALSE

\* lines 227-232: the key getter handed to tx.Sign answers for st.Keypair only
SignFails(t) == t.signer # "keypair"

----------------------------------------------------------------------------
(* sendAndConfirmTransaction *)

Signatures == {"sigA", "sigB"}
ZeroSig    == "zero"            \* solana.Signature{}
NoSig      == "unset"           \* sig before the send

NoRet == [sig |-> NoSig, err |-> "unset"]

\* What GetSignatureStatuses can answer: an RPC error, a nil entry
\* (status.Value[0] == nil), or a status with Err and ConfirmationStatus.
RpcError  == [rpcErr |-> TRUE,  isNil |-> TRUE,  Err |-> FALSE, ConfirmationStatus |-> <<>>]
NilStatus == [rpcErr |-> FALSE, isNil |-> TRUE,  Err |-> FALSE, ConfirmationStatus |-> <<>>]
Status(e, l) == [rpcErr |-> FALSE, isNil |-> FALSE, Err |-> e, ConfirmationStatus |-> l]

StatusAnswers == {RpcError, NilStatus} \cup { Status(e, l) : e \in BOOLEAN, l \in Levels }

\* SendOutcome with the SkipConfirmationCheck return left out
SendOutcomeNoSkip(sendErr, s, opts) ==
    IF sendErr
    THEN [pc |-> "return", ret |-> [sig |-> ZeroSig, err |-> "send"]]
    ELSE [pc |-> "loop", ret |-> NoRet]

\* SendOutcome with a failed send submitted again
SendOutcomeResend(sendErr, s, opts) ==
    IF sendErr
    THEN [pc |-> "send", ret |-> NoRet]
    ELSE IF opts.SkipConfirmationCheck
         THEN [pc |-> "return", ret |-> [sig |-> s, err |-> "none"]]
         ELSE [pc |-> "loop", ret |-> NoRet]

\* lines 264-272: the send, its error check and the SkipConfirmationCheck return
SendOutcome(sendErr, s, opts) ==
    IF sendErr
    THEN [pc |-> "return", ret |-> [sig |-> ZeroSig, err |-> "send"]]
    ELSE IF opts.SkipConfirmationCheck
         THEN [pc |-> "return", ret |-> [sig |-> s, err |-> "none"]]
         ELSE [pc |-> "loop", ret |-> NoRet]

\* LoopContinues with the body run before the first test (k <= retries)
LoopContinuesInclusive(k, opts) == k <= opts.ConfirmationRetries

\* line 275: the loop condition
LoopContinues(k, opts) == k < opts.ConfirmationRetries

\* PollOutcome with the confirmation-status check made before the Err check
PollOutcomeLevelFirst(answer, s) ==
    IF answer.rpcErr
    THEN [pc |-> "return", ret |-> [sig |-> ZeroSig, err |-> "status"]]
    ELSE IF ~answer.isNil /\ StrGE(answer.ConfirmationStatus, Finalized)
    THEN [pc |-> "return", ret |-> [sig |-> s, err |-> "none"]]
    ELSE IF ~answer.isNil /\ answer.Err
    THEN [pc |-> "return", ret |-> [sig |-> ZeroSig, err |-> "failed"]]
    ELSE [pc |-> "sleep", ret |-> NoRet]

\* PollOutcome that records the failure but goes on polling
PollOutcomeNoReturnOnFail(answer, s) ==
    IF answer.rpcErr
    THEN [pc |-> "return", ret |-> [sig |-> ZeroSig, err |-> "status"]]
    ELSE IF ~answer.isNil /\ answer.Err
    THEN [pc |-> "sleep", ret |-> [sig |-> ZeroSig, err |-> "failed"]]
    ELSE IF ~answer.isNil /\ StrGE(answer.ConfirmationStatus, Finalized)
    THEN [pc |-> "return", ret |-> [sig |-> s, err |-> "none"]]
    ELSE [pc |-> "sleep", ret |-> NoRet]

\* PollOutcome that gives up when no status is available yet
PollOutcomeNilFails(answer, s) ==
    IF answer.rpcErr
    THEN [pc |-> "return", ret |-> [sig |-> ZeroSig, err |-> "status"]]
    ELSE IF answer.isNil
    THEN [pc |-> "return", ret |-> [sig |-> ZeroSig, err |-> "timeout"]]
    ELSE IF answer.Err
    THEN [pc |-> "return", ret |-> [sig |-> ZeroSig, err |-> "failed"]]
    ELSE IF StrGE(answer.ConfirmationStatus, Finalized)
    THEN [pc |-> "return", ret |-> [sig |-> s, err |-> "none"]]
    ELSE [pc |-> "sleep", ret |-> NoRet]

\* PollOutcome that treats a failed status query like a missing status
PollOutcomeRetryOnRpcError(answer, s) ==
    IF answer.rpcErr
    THEN [pc |-> "sleep", ret |-> NoRet]
    ELSE IF ~answer.isNil /\ answer.Err
    THEN [pc |-> "return", ret |-> [sig |-> ZeroSig, err |-> "failed"]]
    ELSE IF ~answer.isNil /\ StrGE(answer.ConfirmationStatus, Finalized)
    THEN [pc |-> "return", ret |-> [sig |-> s, err |-> "none"]]
    ELSE [pc |-> "sleep", ret |-> NoRet]

\* PollOutcome that hands back sig together with the errors
PollOutcomeKeepsSig(answer, s) ==
    IF answer.rpcErr
    THEN [pc |-> "return", ret |-> [sig |-> s, err |-> "status"]]
    ELSE IF ~answer.isNil /\ answer.Err
    THEN [pc |-> "return", ret |-> [sig |-> s, err |-> "failed"]]
    ELSE IF ~answer.isNil /\ StrGE(answer.ConfirmationStatus, Finalized)
    THEN [pc |-> "return", ret |-> [sig |-> s, err |-> "none"]]
    ELSE [pc |-> "sleep", ret |-> NoRet]

\* lines 277-292: one status query and the checks on its answer
PollOutcome(answer, s) ==
    IF answer.rpcErr
    THEN [pc |-> "return", ret |-> [sig |-> ZeroSig, err |-> "status"]]
    ELSE IF ~answer.isNil /\ answer.Err
    THEN [pc |-> "return", ret |-> [sig |-> ZeroSig, err |-> "failed"]]
    ELSE IF ~answer.isNil /\ StrGE(answer.ConfirmationStatus, Finalized)
    THEN [pc |-> "return", ret |-> [sig |-> s, err |-> "none"]]
    ELSE [pc |-> "sleep", ret |-> NoRet]

\* line 299: the return after the loop
TimeoutReturn == [sig |-> ZeroSig, err |-> "timeout"]

SendTransaction ==
    /\ pc = "send"
    /\ \E sendErr \in BOOLEAN, s \in Signatures :
         LET o == SendOutcome(sendErr, s, options) IN
           /\ sig' = IF sendErr THEN ZeroSig ELSE s
           /\ pc' = o.pc
           /\ ret' = o.ret
    /\ i' = 0
    /\ log' = Append(log, "send")
    /\ UNCHANGED <<quoteVars, options, tx, statuses, out>>

Poll ==
    /\ pc = "loop"
    /\ LoopContinues(i, options)
    /\ \E answer \in StatusAnswers :
         LET o == PollOutcome(answer, sig) IN
           /\ statuses' = Append(statuses, answer)
           /\ pc' = o.pc
           /\ ret' = o.ret
    /\ log' = Append(log, "poll")
    /\ UNCHANGED <<quoteVars, options, tx, sig, i, out>>

\* Sleep with the wait left out: the loop goes straight to the next poll
SleepSkipped ==
    /\ pc = "sleep"
    /\ i' = i + 1
    /\ pc' = "loop"
    /\ UNCHANGED <<quoteVars, options, tx, sig, statuses, log, ret, out>>

\* line 295 and the i++ of line 275
Sleep ==
    /\ pc = "sleep"
    /\ log' = Append(log, "sleep")
    /\ i' = i + 1
    /\ pc' = "loop"
    /\ UNCHANGED <<quoteVars, options, tx, sig, statuses, ret, out>>

LoopExit ==
    /\ pc = "loop"
    /\ ~LoopContinues(i, options)
    /\ ret' = TimeoutReturn
    /\ pc' = "return"
    /\ UNCHANGED <<quoteVars, options, tx, sig, i, statuses, log, out>>

----------------------------------------------------------------------------
(* Actions of GetSwapInstructions *)

swapVars == <<options, tx, sig, i, statuses, log, ret, out>>

\* lines 85-98
BuildRequest ==
    /\ pc = "main"
    /\ \E fromToken \in StringsUpTo(MaxTokenLen), toToken \in StringsUpTo(1),
          payer \in StringsUpTo(1), fromAmount \in Amounts, slippage \in Slippages,
          fee \in Fees, legacy \in BOOLEAN :
         /\ url' = BuildURL(BuildParams(fromToken, toToken, fromAmount, slippage,
                                        payer, fee, legacy))
         /\ priorityFee' = fee
         /\ forceLegacy' = legacy
    /\ pc' = "http_get"
    /\ UNCHANGED <<httpRequests, resp, quote, swapVars>>

\* lines 101-105; url and priorityFee are not read after the request is issued
HttpGet ==
    /\ pc = "http_get"
    /\ httpRequests' = httpRequests + 1
    /\ \E httpErr \in BOOLEAN :
         LET o == HttpOutcome(httpErr) IN
           /\ resp' = [called |-> TRUE, err |-> httpErr, Body |-> <<>>]
           /\ pc' = o.pc
           /\ quote' = o.quote
    /\ url' = <<>>
    /\ priorityFee' = <<>>
    /\ UNCHANGED <<forceLegacy, swapVars>>

\* lines 107-117
DecodeResponse ==
    /\ pc = "decode"
    /\ \E body \in Bodies :
         /\ resp' = [resp EXCEPT !.Body = body]
         /\ quote' = DecodeOutcome(body, forceLegacy)
    /\ pc' = "quote_return"
    /\ UNCHANGED <<priorityFee, forceLegacy, url, httpRequests, swapVars>>

\* the return (deferred resp.Body.Close()) and example.go lines 39-42
QuoteReturn ==
    /\ pc = "quote_return"
    /\ resp' = NoResp
    /\ pc' = IF quote.err = "none" THEN "perform_swap" ELSE "fatal"
    /\ UNCHANGED <<priorityFee, forceLegacy, url, httpRequests, quote, swapVars>>

----------------------------------------------------------------------------
(* Actions of PerformSwap *)

\* lines 201-215, called with the options of the caller
PerformSwapDecode ==
    /\ pc = "perform_swap"
    /\ \E opts \in SwapOptions : options' = opts
    /\ LET d == DecodeTransaction(quote.Txn) IN
         /\ log' = d.log
         /\ tx' = [NoTx EXCEPT !.signer = d.signer]
         /\ IF d.err = "none"
            THEN pc' = "blockhash" /\ out' = out
            ELSE pc' = "done" /\ out' = [txid |-> "", err |-> d.err]
    /\ UNCHANGED <<quoteVars, sig, i, statuses, ret>>

\* lines 217-224
GetLatestBlockhash ==
    /\ pc = "blockhash"
    /\ log' = Append(log, "blockhash")
    /\ \E rpcErr \in BOOLEAN :
         IF rpcErr
         THEN pc' = "done" /\ out' = [txid |-> "", err |-> "blockhash"] /\ tx' = tx
         ELSE pc' = "sign" /\ out' = out /\ tx' = [tx EXCEPT !.RecentBlockhash = "latest"]
    /\ UNCHANGED <<quoteVars, options, sig, i, statuses, ret>>

\* lines 226-235
Sign ==
    /\ pc = "sign"
    /\ log' = Append(log, "sign")
    /\ IF SignFails(tx)
       THEN pc' = "done" /\ out' = [txid |-> "", err |-> "sign"] /\ tx' = tx
       ELSE pc' = "send" /\ out' = out /\ tx' = [tx EXCEPT !.signed = TRUE]
    /\ UNCHANGED <<quoteVars, options, sig, i, statuses, ret>>

\* lines 238-244
PerformSwapReturn ==
    /\ pc = "return"
    /\ out' = IF ret.err # "none" THEN [txid |-> "", err |-> "send_confirm"]
              ELSE [txid |-> ret.sig, err |-> "none"]
    /\ pc' = "done"
    /\ UNCHANGED <<quoteVars, options, tx, sig, i, statuses, log, ret>>

----------------------------------------------------------------------------

Init ==
    /\ pc = "main"
    /\ priorityFee = <<>>
    /\ forceLegacy = FALSE
    /\ url = <<>>
    /\ httpRequests = 0
    /\ resp = NoResp
    /\ quote = NoQuote
    /\ options = NoOptions
    /\ tx = NoTx
    /\ sig = NoSig
    /\ i = 0
    /\ statuses = <<>>
    /\ log = <<>>
    /\ ret = NoRet
    /\ out = NoOut

Next ==
    \/ BuildRequest
    \/ HttpGet
    \/ DecodeResponse
    \/ QuoteReturn
    \/ PerformSwapDecode
    \/ GetLatestBlockhash
    \/ Sign
    \/ SendTransaction
    \/ Poll
    \/ Sleep
    \/ LoopExit
    \/ PerformSwapReturn

Spec == Init /\ [][Next]_vars

\* The node calls and the sleep of sendAndConfirmTransaction return, and the
\* code between them runs: each of its steps, once possible, is taken.
FairSpec ==
    /\ Spec
    /\ WF_vars(SendTransaction)
    /\ WF_vars(Poll)
    /\ WF_vars(Sleep)
    /\ WF_vars(LoopExit)

----------------------------------------------------------------------------
(* What the claims talk about *)

RECURSIVE Count(_, _)
Count(seq, e) ==
    IF seq = <<>> THEN 0
    ELSE (IF Head(seq) = e THEN 1 ELSE 0) + Count(Tail(seq), e)

Sends  == Count(log, "send")
Polls  == Count(log, "poll")
Sleeps == Count(log, "sleep")

\* time slept so far, in units of 100 ms
Elapsed == Sleeps * options.ConfirmationCheckInterval

\* sendAndConfirmTransaction has returned
Returned == pc \in {"return", "done"} /\ ret # NoRet

SendSucceeded == sig \in Signatures

\* the documented order processed < confirmed < finalized
Rank(l) == CASE l = Processed -> 1 [] l = Confirmed -> 2 [] l = Finalized -> 3 [] OTHER -> 0

HasStatus(a) == ~a.rpcErr /\ ~a.isNil
TxError(a)   == HasStatus(a) /\ a.Err
Sufficient(a, c) == HasStatus(a) /\ ~a.Err /\ Rank(a.ConfirmationStatus) >= Rank(c)
Below(a, c)      == HasStatus(a) /\ Rank(a.ConfirmationStatus) < Rank(c)

LastStatus == statuses[Len(statuses)]

ConfirmedWith(s) == Returned /\ ret = [sig |-> s, err |-> "none"]

\* C1: with SkipConfirmationCheck false, a poll whose status has no error and a
\* confirmation level at or above options.Commitment ends the call in Confirmed
\* at that poll, returning the signature.
C1_SufficientLevelConfirms ==
    (/\ ~options.SkipConfirmationCheck
     /\ statuses # <<>>
     /\ Sufficient(LastStatus, options.Commitment))
    => (ConfirmedWith(sig) /\ Polls = Len(statuses))

\* C2: the call never ends in Confirmed on a status whose level is strictly
\* below options.Commitment; with ConfirmationRetries = 3, commitment finalized
\* and "processed" on every poll the result is the timeout after exactly 3 polls.
C2_NeverConfirmedBelowCommitment ==
    /\ (ret.err = "none" /\ statuses # <<>>)
         => ~Below(LastStatus, options.Commitment)
    /\ (/\ Returned
        /\ SendSucceeded
        /\ ~options.SkipConfirmationCheck
        /\ options.ConfirmationRetries = 3
        /\ options.Commitment = Finalized
        /\ \A k \in 1 .. Len(statuses) : statuses[k] = Status(FALSE, Processed))
         => (ret = TimeoutReturn /\ Polls = 3)

\* C3: after a successful send without SkipConfirmationCheck, a run in which
\* every poll is answered and no answer carries a transaction error or a level
\* sufficient for options.Commitment returns the timeout error, with no
\* signature, after exactly ConfirmationRetries polls.
C3_TimeoutAfterExactlyRetries ==
    (/\ Returned
     /\ SendSucceeded
     /\ ~options.SkipConfirmationCheck
     /\ options.ConfirmationRetries >= 0
     /\ \A k \in 1 .. Len(statuses) :
           /\ ~statuses[k].rpcErr
           /\ ~TxError(statuses[k])
           /\ ~Sufficient(statuses[k], options.Commitment))
    => (ret = TimeoutReturn /\ Polls = options.ConfirmationRetries)

\* C4: a poll whose status carries a transaction error ends the call at that
\* poll with the "transaction failed" error and no signature, whatever the
\* confirmation level of that status; no poll and no sleep follows it.
C4_TxErrorEndsCall ==
    \A k \in 1 .. Len(statuses) :
        TxError(statuses[k]) =>
            /\ k = Len(statuses)
            /\ k <= options.ConfirmationRetries
            /\ Returned
            /\ ret = [sig |-> ZeroSig, err |-> "failed"]
            /\ Polls = k
            /\ Sleeps = k - 1

C4_Witness ==
    /\ pc = "return"
    /\ Len(statuses) >= 2
    /\ LastStatus = Status(TRUE, Finalized)

\* C5: with SkipConfirmationCheck true, a successful send ends the call in
\* Confirmed with the signature the send returned, without any poll or sleep.
C5_SkipReturnsAfterSend ==
    (options.SkipConfirmationCheck /\ SendSucceeded)
    => /\ ConfirmedWith(sig)
       /\ Polls = 0
       /\ Sleeps = 0
       /\ statuses = <<>>
       /\ (pc = "done" => out = [txid |-> sig, err |-> "none"])

C5_Witness ==
    /\ options.SkipConfirmationCheck
    /\ SendSucceeded
    /\ pc = "done"
    /\ options.ConfirmationRetries > 0
    /\ options.Commitment = Finalized

\* C6: when a level sufficient for options.Commitment is first reported by
\* poll k < ConfirmationRetries, the call returns the signature after exactly
\* k polls.
C6_ConfirmsAtFirstSufficientPoll ==
    \A k \in 1 .. Len(statuses) :
        (/\ k < options.ConfirmationRetries
         /\ Sufficient(statuses[k], options.Commitment)
         /\ \A j \in 1 .. (k - 1) : ~Sufficient(statuses[j], options.Commitment))
        => (k = Len(statuses) /\ ConfirmedWith(sig) /\ Polls = k)

C8_TimeoutBoundsPolling ==
    /\ \A k \in 1 .. Len(statuses) :
          (k - 1) * options.ConfirmationCheckInterval <= options.ConfirmationRetryTimeout
    /\ (Returned /\ Elapsed > options.ConfirmationRetryTimeout) => ret.err # "none"

----------------------------------------------------------------------------
(* Reading a query string back: split at "&", the key is what precedes "=" *)

UnescapeToken(t) ==
    CASE t = "%26" -> "&" [] t = "%3D" -> "=" [] t = "%2B" -> "+" [] t = "+" -> " "
      [] OTHER -> t

\* The query string of URL u starts after its first two tokens (base, "/swap?").
QueryStart == 3

\* where the pairs of the query string start: at its start and after every "&"
PairStarts(u) ==
    {QueryStart} \cup {n + 1 : n \in {m \in QueryStart .. Len(u) : u[m] = "&"}}

\* the end of the key that starts at n: the next "=" or "&", or the end of u
KeyEnd(u, n) ==
    LET stops == {m \in n .. Len(u) : u[m] \in {"=", "&"}}
    IN  IF stops = {} THEN Len(u) + 1
        ELSE CHOOSE m \in stops : \A x \in stops : m <= x

KeyAt(u, n) == [x \in 1 .. (KeyEnd(u, n) - n) |-> UnescapeToken(u[n + x - 1])]

\* the keys of the query string, by the position their pair starts at
Keys(u) == [n \in PairStarts(u) |-> KeyAt(u, n)]

KeyCount(keys, k) == Cardinality({n \in DOMAIN keys : keys[n] = <<k>>})

\* C9: the query string of the request holds each of from, to, fromAmount,
\* slippage, payer and forceLegacy exactly once, and priorityFee once when the
\* fee is given and not at all when it is nil.
C9_EachKeyExactlyOnce ==
    pc = "http_get" =>
        LET keys == Keys(url) IN
          /\ \A k \in {"from", "to", "fromAmount", "slippage", "payer", "forceLegacy"} :
                KeyCount(keys, k) = 1
          /\ KeyCount(keys, "priorityFee") = (IF priorityFee # <<>> THEN 1 ELSE 0)
          /\ Cardinality(DOMAIN keys) = (IF priorityFee # <<>> THEN 7 ELSE 6)

C9_Witness ==
    /\ pc = "http_get"
    /\ priorityFee = <<>>
    /\ \E k \in 2 .. Len(url) : url[k - 1] = "%26" /\ url[k] = "priorityFee"

\* definitely well formed: one JSON object whose txn member is a string
WellFormedBody(b) == Len(b) = 1 /\ b[1].kind = "object" /\ b[1].txn \in TxnStrings

\* definitely not well formed: nothing at all, or bytes that are not JSON
MalformedBody(b) == b = <<>> \/ \E k \in 1 .. Len(b) : b[k].kind = "garbage"

\* the decoder's verdict on the first fragment
FirstValueRejected(b) ==
    \/ b = <<>>
    \/ b[1].kind \in {"garbage", "array"}
    \/ b[1].kind = "object" /\ b[1].txn = "<number>"

\* C10 as stated: one request per call, and an error with no quote exactly
\* when the request fails or the body is not well formed.
C10_ErrorIffNotWellFormed ==
    pc = "quote_return" =>
        /\ httpRequests = 1
        /\ (resp.err \/ MalformedBody(resp.Body)) => (quote.err # "none" /\ quote.isNil)
        /\ (~resp.err /\ WellFormedBody(resp.Body)) => (quote.err = "none" /\ ~quote.isNil)

\* C10 as amended: one request per call, and an error with no quote exactly
\* when the request fails or the decoder rejects the first JSON value of the
\* body; what follows that value is not examined.
C10_ErrorIffFirstValueRejected ==
    pc = "quote_return" =>
        /\ httpRequests = 1
        /\ (quote.err # "none") <=> (resp.err \/ FirstValueRejected(resp.Body))
        /\ (quote.err = "fetch") <=> resp.err
        /\ (quote.err # "none") <=> quote.isNil

C10_Witness ==
    /\ pc = "quote_return"
    /\ Len(resp.Body) = 2
    /\ resp.Body[2].kind = "garbage"
    /\ quote.err = "none"

----------------------------------------------------------------------------
(* The order of the steps of PerformSwap *)

Steps == <<"base64", "deserialize", "blockhash", "sign", "send">>

Done(step) == Count(log, step) > 0

\* C11: PerformSwap runs base64 decode, deserialize, blockhash fetch, sign,
\* send and the polls in that order; a step is run only when all steps before
\* it succeeded, so a failed step is the last one, the transaction is sent
\* only when decoded, deserialized, given the latest blockhash and signed, and
\* polls are issued only after a successful send.
C11_StepsInOrder ==
    /\ \A n \in 1 .. Len(log) :
          IF n <= Len(Steps) THEN log[n] = Steps[n] ELSE log[n] \in {"poll", "sleep"}
    /\ Done("deserialize") => ~Base64Decode(quote.Txn).err
    /\ Done("blockhash") =>
          ~TransactionFromDecoder(Base64Decode(quote.Txn).bytes).err
    /\ Done("sign") => tx.RecentBlockhash = "latest"
    /\ Done("send") => (tx.signed /\ tx.signer = "keypair"
                          /\ tx.RecentBlockhash = "latest")
    /\ Done("poll") => (SendSucceeded /\ Sends = 1)
    /\ out.err = "decode"      => (pc = "done" /\ log = SubSeq(Steps, 1, 1))
    /\ out.err = "deserialize" => (pc = "done" /\ log = SubSeq(Steps, 1, 2))
    /\ out.err = "blockhash"   => (pc = "done" /\ log = SubSeq(Steps, 1, 3))
    /\ out.err = "sign"        => (pc = "done" /\ log = SubSeq(Steps, 1, 4))
    /\ sig = ZeroSig           => log = Steps

C11_Witness ==
    /\ pc = "done"
    /\ out.err = "sign"
    /\ tx.signer = "other"
    /\ ~Done("send")

----------------------------------------------------------------------------
(* The confirmation loop, step by step *)

\* where "send" stands in the log, and where poll k stands after it
SendPos == CHOOSE n \in 1 .. Len(log) : log[n] = "send"
PollPos(k) == SendPos + 2 * k - 1

\* C12: two consecutive polls are separated by exactly one sleep, a poll that
\* ends the call in Confirmed or Failed is not followed by a sleep, and a run
\* that times out after n polls has slept at least n - 1 intervals.
C12_OneSleepBetweenPolls ==
    /\ \A n \in 1 .. Len(log) :
          /\ (log[n] = "poll" /\ n < Len(log)) => log[n + 1] = "sleep"
          /\ log[n] = "sleep" => (n > 1 /\ log[n - 1] = "poll")
          /\ (log[n] = "sleep" /\ n < Len(log)) => log[n + 1] = "poll"
    /\ (Returned /\ ret.err \in {"none", "failed"} /\ Polls > 0)
          => (log[Len(log)] = "poll" /\ Sleeps = Polls - 1)
    /\ (Returned /\ ret = TimeoutReturn)
          => (/\ Sleeps >= Polls - 1
              /\ Elapsed >= (Polls - 1) * options.ConfirmationCheckInterval)

C12_Witness ==
    /\ pc = "return"
    /\ ret = TimeoutReturn
    /\ Polls = 3
    /\ options.ConfirmationCheckInterval = 1

\* C13: with every node call and sleep returning, a call of
\* sendAndConfirmTransaction eventually returns (Confirmed, Failed or TimedOut),
\* its result is not changed afterwards, and no send, poll or sleep follows.
C13_EventuallyTerminal ==
    /\ (pc = "send") ~> Returned
    /\ [][ret # NoRet => (ret' = ret /\ log' = log)]_vars
    /\ [](ret # NoRet => ret.err \in {"none", "send", "failed", "status", "timeout"})

C13_Witness ==
    /\ pc = "done"
    /\ ret = TimeoutReturn
    /\ Polls >= 2
    /\ \E k \in 1 .. Len(statuses) : statuses[k] = Status(FALSE, Confirmed)

\* C14: a poll k < ConfirmationRetries that reports no status does not end the
\* call: a sleep and then poll k + 1 are the next two steps.
C14_NoStatusKeepsPolling ==
    \A k \in 1 .. Len(statuses) :
        (statuses[k] = NilStatus /\ k < options.ConfirmationRetries) =>
            /\ k = Len(statuses) => (ret = NoRet /\ pc \in {"sleep", "loop"})
            /\ (k = Len(statuses) /\ pc = "sleep") => log[Len(log)] = "poll"
            /\ (k = Len(statuses) /\ pc = "loop")
                  => (i = k /\ LoopContinues(i, options) /\ log[Len(log)] = "sleep")
            /\ Len(log) > PollPos(k) => log[PollPos(k) + 1] = "sleep"
            /\ Len(log) > PollPos(k) + 1 => log[PollPos(k) + 2] = "poll"
            /\ log[PollPos(k)] = "poll"

C14_Witness ==
    /\ Len(statuses) = 2
    /\ statuses[1] = NilStatus
    /\ Polls = 2
    /\ Sleeps = 1

C16_SignatureOnlyWhenConfirmed ==
    /\ ret # NoRet =>
          /\ ret.err # "none" => ret.sig = ZeroSig
          /\ ret.err = "none" => (ret.sig = sig /\ sig \in Signatures)
    /\ (pc = "done" /\ out.err # "none") => out.txid = ""
    /\ pc = "done" => ((out.txid # "") <=> (ret.err = "none"))
    /\ (pc = "done" /\ ret.err = "none") => out = [txid |-> sig, err |-> "none"]

C16_Witness ==
    /\ pc = "done"
    /\ SendSucceeded
    /\ ret.err = "failed"
    /\ out.txid = ""

\* C17: with ConfirmationRetries <= 0 and SkipConfirmationCheck false, a run
\* whose send succeeds polls and sleeps zero times and returns the timeout
\* error.
C17_NoRetriesTimesOut ==
    (/\ options.ConfirmationRetries <= 0
     /\ ~options.SkipConfirmationCheck
     /\ SendSucceeded)
    => /\ Polls = 0
       /\ Sleeps = 0
       /\ statuses = <<>>
       /\ pc = "loop" => ~LoopContinues(i, options)
       /\ pc # "loop" => (Returned /\ ret = TimeoutReturn)
       /\ pc = "done" => out = [txid |-> "", err |-> "send_confirm"]

C17_Witness ==
    /\ options.ConfirmationRetries = 0
    /\ ~options.SkipConfirmationCheck
    /\ SendSucceeded
    /\ pc = "done"
    /\ Sends = 1

\* C18: the ForceLegacy flag of the quote GetSwapInstructions returns is the
\* forceLegacy argument, whatever the forceLegacy member of the response says.
C18_ForceLegacyIsArgument ==
    quote.err = "none" => (~quote.isNil /\ quote.ForceLegacy = forceLegacy)

C18_Witness ==
    /\ pc = "quote_return"
    /\ quote.err = "none"
    /\ resp.Body[1].kind = "object"
    /\ resp.Body[1].forceLegacy # forceLegacy

====
